---- MODULE Spec2Model ----
(***************************************************************************)
(* Model of the CCCP computation (cccp_computer.py) and of its driver      *)
(* (main.py).  Syntax trees are records tagged with the name of their      *)
(* Python ast class; the analysis functions are recursive operators that   *)
(* follow the isinstance chains of the source branch by branch.  A Python  *)
(* exception is a record whose exc field names the exception class.        *)
(***************************************************************************)
EXTENDS Integers, Sequences, FiniteSets, TLC

\* ------------------------------------------------------------------------
\* Bounds of the model
\* ------------------------------------------------------------------------
MaxFiles == 2
MaxP == 1
MaxB == 1
MaxScore == 2
\* the most elements of a literal, operands of and / or, arguments of a call
MaxElts == 2

\* ------------------------------------------------------------------------
\* Helpers on sets and sequences
\* ------------------------------------------------------------------------
Range(s) == {s[i] : i \in DOMAIN s}

\* Python's max over a non-empty collection of integers
Max(S) == CHOOSE m \in S : \A n \in S : n <= m

\* ------------------------------------------------------------------------
\* Syntax trees: one constructor per ast class the analysis distinguishes
\* ------------------------------------------------------------------------
Constant == [kind |-> "Constant"]
Name(id, ctx) == [kind |-> "Name", id |-> id, ctx |-> ctx]
BinOp(l, op, r) == [kind |-> "BinOp", left |-> l, op |-> op, right |-> r]
Compare(l, ops, cs) == [kind |-> "Compare", left |-> l, ops |-> ops, comparators |-> cs]
UnaryOp(e) == [kind |-> "UnaryOp", operand |-> e]
BoolOp(op, vs) == [kind |-> "BoolOp", op |-> op, values |-> vs]
Call(f, as) == [kind |-> "Call", func |-> f, args |-> as]
List(es, ctx) == [kind |-> "List", elts |-> es, ctx |-> ctx]
Tuple(es, ctx) == [kind |-> "Tuple", elts |-> es, ctx |-> ctx]
Subscript(v, s, ctx) == [kind |-> "Subscript", value |-> v, slice |-> s, ctx |-> ctx]
\* an expression class the analysis has no branch for (obj.attr)
Attribute(v, ctx) == [kind |-> "Attribute", value |-> v, ctx |-> ctx]

Module(body) == [kind |-> "Module", body |-> body]
Assign(ts, v, ln) == [kind |-> "Assign", targets |-> ts, value |-> v, lineno |-> ln]
AugAssign(t, v, ln) == [kind |-> "AugAssign", target |-> t, value |-> v, lineno |-> ln]
Expr(v, ln) == [kind |-> "Expr", value |-> v, lineno |-> ln]
For(t, it, body, orelse, ln) ==
  [kind |-> "For", target |-> t, iter |-> it, body |-> body, orelse |-> orelse, lineno |-> ln]
While(test, body, orelse, ln) ==
  [kind |-> "While", test |-> test, body |-> body, orelse |-> orelse, lineno |-> ln]
If(test, body, orelse, ln) ==
  [kind |-> "If", test |-> test, body |-> body, orelse |-> orelse, lineno |-> ln]
\* Break, Continue, Pass, Import, ImportFrom, and the classes without a branch
Simple(kind, ln) == [kind |-> kind, lineno |-> ln]

\* ------------------------------------------------------------------------
\* Python exceptions and normal returns
\* ------------------------------------------------------------------------
\* max() of an empty sequence (lines 79, 82)
ValueError == [exc |-> "ValueError"]
\* {set()} : a set is not hashable (line 183)
TypeError == [exc |-> "TypeError"]
\* the message interpolates the class name of the node and nothing else
NotImplementedError(node) == [exc |-> "NotImplementedError", kind |-> node.kind]

Raised(r) == r.exc # "None"

\* ------------------------------------------------------------------------
\* expression_depth
\* ------------------------------------------------------------------------
DepthOps(d, ops) == [exc |-> "None", depth |-> d, ops |-> ops]

\* type(node.op).__name__ passed to set(): the set of its characters
CharsOf(name) == IF name = "And" THEN {"A", "n", "d"} ELSE {"O", "r"}

\* the class name of the first comparator of the list
TypeNameOfFirst(ops) == ops[1]

\* type(node.ops).__name__ : node.ops is a Python list, whatever is in it
TypeNameOf(ops) == "list"

\* one more level for every operator, whether or not its kind is new
Grows_always(child_ops, all_ops) == 1

\* the depth added when the operator set grows
Grows(child_ops, all_ops) == IF Cardinality(child_ops) # Cardinality(all_ops) THEN 1 ELSE 0

RECURSIVE expression_depth(_)
RECURSIVE expression_depth_list(_)

\* [expression_depth(x) for x in s]: the first exception raised, if any
FirstRaised(rs) == rs[CHOOSE i \in DOMAIN rs : Raised(rs[i]) /\ \A j \in DOMAIN rs : Raised(rs[j]) => i <= j]
AnyRaised(rs) == \E i \in DOMAIN rs : Raised(rs[i])
MaxDepth(rs) == Max({rs[i].depth : i \in DOMAIN rs})

expression_depth(node) ==
  CASE node.kind = "Constant" -> DepthOps(0, {})
    [] node.kind = "BinOp" ->
         LET l == expression_depth(node.left)
             r == expression_depth(node.right)
             child_ops == l.ops \cup r.ops
             all_ops == child_ops \cup {node.op}
         IN IF Raised(l) THEN l
            ELSE IF Raised(r) THEN r
            ELSE DepthOps(Max({l.depth, r.depth}) + Grows(child_ops, all_ops), all_ops)
    [] node.kind = "Compare" ->
         LET l == expression_depth(node.left)
             r == expression_depth_list(node.comparators)
             child_ops == l.ops \cup r.ops
             all_ops == child_ops \cup {TypeNameOf(node.ops)}
         IN IF Raised(l) THEN l
            ELSE IF Raised(r) THEN r
            ELSE DepthOps(Max({l.depth, r.depth}) + Grows(child_ops, all_ops), all_ops)
    [] node.kind = "UnaryOp" ->
         LET o == expression_depth(node.operand)
         IN IF Raised(o) THEN o ELSE DepthOps(o.depth + 1, {})
    [] node.kind = "BoolOp" ->
         IF node.values = <<>> THEN DepthOps(0, {})
         ELSE LET child_depths == [i \in DOMAIN node.values |-> expression_depth(node.values[i])]
                  child_ops == UNION {child_depths[i].ops : i \in DOMAIN child_depths}
                  all_ops == child_ops \cup CharsOf(node.op)
              IN IF AnyRaised(child_depths) THEN FirstRaised(child_depths)
                 ELSE DepthOps(MaxDepth(child_depths) + Grows(child_ops, all_ops), all_ops)
    [] node.kind = "Call" ->
         IF node.args = <<>> THEN DepthOps(1, {})
         ELSE LET ds == [i \in DOMAIN node.args |-> expression_depth(node.args[i])]
              IN IF AnyRaised(ds) THEN FirstRaised(ds)
                 ELSE DepthOps(MaxDepth(ds) + 1, {})
    [] node.kind = "Name" -> DepthOps(1, {})
    [] node.kind \in {"List", "Tuple"} ->
         LET ds == [i \in DOMAIN node.elts |-> expression_depth(node.elts[i])]
         IN IF AnyRaised(ds) THEN FirstRaised(ds)
            ELSE IF node.elts = <<>> THEN ValueError
            ELSE DepthOps(MaxDepth(ds) + 1, {})
    [] node.kind = "Subscript" ->
         LET v == expression_depth(node.value)
             s == expression_depth(node.slice)
         IN IF Raised(v) THEN v
            ELSE IF Raised(s) THEN s
            ELSE IF node.value.kind = "Subscript"
                 THEN DepthOps(v.depth + s.depth + 1, {})
                 ELSE DepthOps(Max({v.depth, s.depth}) + 1, {})
    [] OTHER -> DepthOps(0, {})

\* the isinstance(node, list) branch: a Python list of expressions
expression_depth_list(nodes) ==
  IF nodes = <<>> THEN DepthOps(1, {})
  ELSE LET ds == [i \in DOMAIN nodes |-> expression_depth(nodes[i])]
       IN IF AnyRaised(ds) THEN FirstRaised(ds)
          ELSE DepthOps(MaxDepth(ds), {})

\* ------------------------------------------------------------------------
\* get_expression_identifiers
\* ------------------------------------------------------------------------
RECURSIVE get_expression_identifiers(_, _)

\* the identifiers counted, the name f taken for a built-in and left out
get_expression_identifiers_without_f(node, exclude_store_identifiers) ==
  (CASE node.kind = "BinOp" ->
          get_expression_identifiers(node.left, FALSE) \cup get_expression_identifiers(node.right, FALSE)
     [] node.kind = "Compare" ->
          get_expression_identifiers(node.left, FALSE)
            \cup UNION {get_expression_identifiers(node.comparators[i], FALSE) : i \in DOMAIN node.comparators}
     [] node.kind = "UnaryOp" -> get_expression_identifiers(node.operand, FALSE)
     [] node.kind = "BoolOp" ->
          UNION {get_expression_identifiers(node.values[i], FALSE) : i \in DOMAIN node.values}
     [] node.kind = "Call" ->
          (IF node.func.kind = "Name" THEN {node.func.id} ELSE {})
            \cup UNION {get_expression_identifiers(node.args[i], FALSE) : i \in DOMAIN node.args}
     [] node.kind = "Name" ->
          IF exclude_store_identifiers /\ node.ctx = "Store" THEN {} ELSE {node.id}
     [] node.kind \in {"List", "Tuple"} ->
          UNION {get_expression_identifiers(node.elts[i], FALSE) : i \in DOMAIN node.elts}
     [] node.kind = "Subscript" ->
          get_expression_identifiers(node.value, FALSE) \cup get_expression_identifiers(node.slice, FALSE)
     [] OTHER -> {}) \ {"f"}

\* the recursive calls pass no second argument: the default False
IdsOfAll(nodes) == UNION {get_expression_identifiers(nodes[i], FALSE) : i \in DOMAIN nodes}

get_expression_identifiers(node, exclude_store_identifiers) ==
  CASE node.kind = "Constant" -> {}
    [] node.kind = "BinOp" ->
         get_expression_identifiers(node.left, FALSE) \cup get_expression_identifiers(node.right, FALSE)
    [] node.kind = "Compare" ->
         get_expression_identifiers(node.left, FALSE) \cup IdsOfAll(node.comparators)
    [] node.kind = "UnaryOp" -> get_expression_identifiers(node.operand, FALSE)
    [] node.kind = "BoolOp" -> IdsOfAll(node.values)
    [] node.kind = "Call" ->
         (IF node.func.kind = "Name" THEN {node.func.id} ELSE {}) \cup IdsOfAll(node.args)
    [] node.kind = "Name" ->
         IF exclude_store_identifiers /\ node.ctx = "Store" THEN {} ELSE {node.id}
    [] node.kind \in {"List", "Tuple"} -> IdsOfAll(node.elts)
    [] node.kind = "Subscript" ->
         get_expression_identifiers(node.value, FALSE) \cup get_expression_identifiers(node.slice, FALSE)
    [] OTHER -> {}

\* ------------------------------------------------------------------------
\* CCTree and its two reductions
\* ------------------------------------------------------------------------
CCTree(node, plan_depth, line, branch_depth, mpi, subtrees) ==
  [node |-> node, plan_depth |-> plan_depth, line |-> line,
   branch_depth |-> branch_depth, mpi |-> mpi, subtrees |-> subtrees]

RECURSIVE get_depth_plan(_)

\* the reduction with the node's own plan_depth taken into the maximum
get_depth_plan_with_self(self) ==
  IF self.subtrees = <<>> THEN self.plan_depth
  ELSE Max({self.plan_depth}
             \cup {get_depth_plan(self.subtrees[i]) : i \in DOMAIN self.subtrees})

\* a childless node counted as one level more than its plan_depth
get_depth_plan_leaf_plus_one(self) ==
  IF Len(self.subtrees) = 0 THEN self.plan_depth + 1
  ELSE Max({get_depth_plan(self.subtrees[i]) : i \in DOMAIN self.subtrees})

get_depth_plan(self) ==
  IF self.subtrees = <<>> THEN self.plan_depth
  ELSE Max({get_depth_plan(self.subtrees[i]) : i \in DOMAIN self.subtrees})

RECURSIVE get_mpi(_)
\* the maximum below the node, the node's own mpi left out
get_mpi_below(self) ==
  IF Len(self.subtrees) = 0 THEN self.mpi
  ELSE Max({get_mpi(self.subtrees[i]) : i \in DOMAIN self.subtrees})

get_mpi(self) ==
  IF self.subtrees = <<>> THEN self.mpi
  ELSE Max({self.mpi, Max({get_mpi(self.subtrees[i]) : i \in DOMAIN self.subtrees})})

\* ------------------------------------------------------------------------
\* create_cctree
\* ------------------------------------------------------------------------
Returned(v) == [exc |-> "None", val |-> v]

\* (1 if len(loaded_identifiers) == 0 else 0)
OneIfEmpty(ids) == IF Cardinality(ids) = 0 THEN 1 ELSE 0

\* mpi of a for / while / if header and of a call with arguments
HeaderMpi(loaded_identifiers, depth, branch_depth) ==
  Cardinality(loaded_identifiers) + depth + branch_depth + OneIfEmpty(loaded_identifiers)

\* an expression-statement call without arguments
CallWithoutArgs(node, parent_plan_depth, branch_depth) ==
  Returned(CCTree(node, parent_plan_depth + 1, node.lineno, branch_depth, branch_depth + 1, <<>>))

\* the leaf with the parent's plan depth left unchanged
SimpleStatement_same_depth(node, parent_plan_depth, branch_depth) ==
  Returned(CCTree(node, parent_plan_depth, node.lineno, branch_depth, branch_depth + 1, <<>>))

\* break, continue, pass, import, from-import
SimpleStatement(node, parent_plan_depth, branch_depth) ==
  Returned(CCTree(node, parent_plan_depth + 1, node.lineno, branch_depth, branch_depth + 1, <<>>))

RECURSIVE create_cctree(_, _, _)

\* the children built in order with the same arguments; the first exception
\* raised by one of them leaves the enclosing call
Subtrees(nodes, parent_plan_depth, branch_depth) ==
  LET rs == [i \in DOMAIN nodes |-> create_cctree(nodes[i], parent_plan_depth, branch_depth)]
  IN IF nodes = <<>> THEN Returned(<<>>)
     ELSE IF AnyRaised(rs) THEN FirstRaised(rs)
     ELSE Returned([i \in DOMAIN nodes |-> rs[i].val])

\* the children built with the branch depth of the node itself
Branching_same_branch_depth(node, h, nested, parent_plan_depth, branch_depth) ==
  LET test == expression_depth(h)
      depth == parent_plan_depth + test.depth + 1
      subtrees == Subtrees(nested, depth, branch_depth)
      loaded_identifiers == get_expression_identifiers(h, FALSE)
      mpi == HeaderMpi(loaded_identifiers, test.depth, branch_depth)
  IN IF Raised(test) THEN test
     ELSE IF Raised(subtrees) THEN subtrees
     ELSE Returned(CCTree(node, depth, node.lineno, branch_depth, mpi, subtrees.val))

\* the children built on the plan depth the node was given, not on its own
Branching_on_parent_depth(node, h, nested, parent_plan_depth, branch_depth) ==
  LET test == expression_depth(h)
      depth == parent_plan_depth + test.depth + 1
      subtrees == Subtrees(nested, parent_plan_depth, branch_depth + 1)
      loaded_identifiers == get_expression_identifiers(h, FALSE)
      mpi == HeaderMpi(loaded_identifiers, test.depth, branch_depth)
  IN IF Raised(test) THEN test
     ELSE IF Raised(subtrees) THEN subtrees
     ELSE Returned(CCTree(node, depth, node.lineno, branch_depth, mpi, subtrees.val))

\* an if built like a loop: the statements of its else branch not visited
Branching_body_only(node, h, nested, parent_plan_depth, branch_depth) ==
  LET test == expression_depth(h)
      depth == parent_plan_depth + test.depth + 1
      subtrees == Subtrees(node.body, depth, branch_depth + 1)
      loaded_identifiers == get_expression_identifiers(h, FALSE)
      mpi == HeaderMpi(loaded_identifiers, test.depth, branch_depth)
  IN IF Raised(test) THEN test
     ELSE IF Raised(subtrees) THEN subtrees
     ELSE Returned(CCTree(node, depth, node.lineno, branch_depth, mpi, subtrees.val))

\* for / while / if: header expression h, children in nested
Branching(node, h, nested, parent_plan_depth, branch_depth) ==
  LET test == expression_depth(h)
      depth == parent_plan_depth + test.depth + 1
      subtrees == Subtrees(nested, depth, branch_depth + 1)
      loaded_identifiers == get_expression_identifiers(h, FALSE)
      mpi == HeaderMpi(loaded_identifiers, test.depth, branch_depth)
  IN IF Raised(test) THEN test
     ELSE IF Raised(subtrees) THEN subtrees
     ELSE Returned(CCTree(node, depth, node.lineno, branch_depth, mpi, subtrees.val))

create_cctree(node, parent_plan_depth, branch_depth) ==
  CASE node.kind = "Module" ->
         LET children_plans == Subtrees(node.body, parent_plan_depth, branch_depth)
         IN IF Raised(children_plans) THEN children_plans
            ELSE Returned(CCTree(node, parent_plan_depth, 0, branch_depth, 0, children_plans.val))
    [] node.kind = "Assign" ->
         LET exp == expression_depth(node.value)
             lefts == [i \in DOMAIN node.targets |-> expression_depth(node.targets[i])]
             assignment_depth == Max({exp.depth + 1, MaxDepth(lefts)})
             plan_depth == assignment_depth + parent_plan_depth
             loaded_identifiers ==
               get_expression_identifiers(node.value, FALSE)
                 \cup UNION {get_expression_identifiers(node.targets[i], TRUE) : i \in DOMAIN node.targets}
             mpi == Cardinality(loaded_identifiers) + assignment_depth + branch_depth - 1
         IN IF Raised(exp) THEN exp
            ELSE IF AnyRaised(lefts) THEN FirstRaised(lefts)
            ELSE Returned(CCTree(node, plan_depth, node.lineno, branch_depth, mpi, <<>>))
    [] node.kind = "AugAssign" ->
         LET exp == expression_depth(node.value)
             left == expression_depth(node.target)
             assignment_depth == Max({exp.depth + 1, left.depth}) + 1
             plan_depth == assignment_depth + parent_plan_depth
             loaded_identifiers ==
               get_expression_identifiers(node.value, FALSE)
                 \cup get_expression_identifiers(node.target, FALSE)
             mpi == Cardinality(loaded_identifiers) + assignment_depth + branch_depth
                      - (IF exp.depth > 0 THEN 1 ELSE 0)
         IN IF Raised(exp) THEN exp
            ELSE IF Raised(left) THEN left
            ELSE Returned(CCTree(node, plan_depth, node.lineno, branch_depth, mpi, <<>>))
    [] node.kind = "Expr" /\ node.value.kind = "Call" ->
         IF node.value.args = <<>>
         THEN CallWithoutArgs(node, parent_plan_depth, branch_depth)
         ELSE LET ds == [i \in DOMAIN node.value.args |-> expression_depth(node.value.args[i])]
                  exp_depth == MaxDepth(ds)
                  plan_depth == exp_depth + 1 + parent_plan_depth
                  loaded_identifiers ==
                    get_expression_identifiers(node.value, FALSE) \cup {node.value.func.id}
                  mpi == HeaderMpi(loaded_identifiers, exp_depth, branch_depth)
              IN IF AnyRaised(ds) THEN FirstRaised(ds)
                 ELSE IF node.value.func.kind # "Name" THEN TypeError
                 ELSE Returned(CCTree(node, plan_depth, node.lineno, branch_depth, mpi, <<>>))
    [] node.kind = "For" -> Branching(node, node.iter, node.body, parent_plan_depth, branch_depth)
    [] node.kind = "While" -> Branching(node, node.test, node.body, parent_plan_depth, branch_depth)
    [] node.kind = "If" ->
         Branching(node, node.test, node.body \o node.orelse, parent_plan_depth, branch_depth)
    [] node.kind \in {"Break", "Continue", "Pass", "Import", "ImportFrom"} ->
         SimpleStatement(node, parent_plan_depth, branch_depth)
    [] OTHER -> NotImplementedError(node)

\* ------------------------------------------------------------------------
\* The syntax trees the model draws its inputs from
\* ------------------------------------------------------------------------
X == Name("x", "Load")
Y == Name("y", "Load")
F == Name("f", "Load")
XStore == Name("x", "Store")
YStore == Name("y", "Store")

\* 1, x, y
Leaves == {Constant, X, Y}

\* the expressions of one operator over the leaves, [] and () , x.a, m[i][j]
Values ==
  Leaves
    \cup {List(<<>>, "Load"), Tuple(<<>>, "Load"), Attribute(X, "Load")}
    \cup {BinOp(a, "Add", b) : a, b \in Leaves}
    \cup {Compare(a, <<"Lt">>, <<b>>) : a, b \in Leaves}
    \cup {UnaryOp(a) : a \in Leaves}
    \cup {BoolOp("And", <<a, b>>) : a, b \in {X, Y}}
    \cup {Call(F, <<>>), Call(Attribute(X, "Load"), <<>>)}
    \cup {Call(F, <<a>>) : a \in Leaves}
    \cup {List(<<a>>, "Load") : a \in Leaves}
    \cup {Tuple(<<a, b>>, "Load") : a, b \in {Constant, X}}
    \cup {Subscript(X, a, "Load") : a \in Leaves}
    \cup {Subscript(Subscript(X, Y, "Load"), a, "Load") : a \in Leaves}
    \cup {BinOp(BinOp(X, "Add", Y), op, X) : op \in {"Add", "Mult"}}

\* x, (x, y), x[y], x.a on the left of an assignment
Targets ==
  {XStore, Tuple(<<XStore, YStore>>, "Store"), Subscript(X, Y, "Store"), Attribute(X, "Store")}

\* t = ..., and the chain x = y = ...
TargetLists == {<<t>> : t \in Targets} \cup {<<XStore, YStore>>}

\* the arguments of a call statement
ArgLists ==
  {<<>>} \cup {<<a>> : a \in Leaves \cup {List(<<>>, "Load"), BinOp(X, "Add", Y), Call(F, <<X>>)}}
         \cup {<<a, b>> : a, b \in {Constant, X, Y}}

LeafKinds == {"Break", "Continue", "Pass", "Import", "ImportFrom"}
\* statement classes the builder has no branch for
OtherKinds == {"ClassDef", "FunctionDef", "Return"}

LeafStmts(ln) ==
  {Assign(ts, v, ln) : ts \in TargetLists, v \in Values}
    \cup {AugAssign(t, v, ln) : t \in {XStore, Subscript(X, Y, "Store")}, v \in Values}
    \cup {Expr(Call(fn, as), ln) : fn \in {F, Attribute(X, "Load")}, as \in ArgLists}
    \cup {Expr(v, ln) : v \in {Constant, X}}
    \cup {Simple(k, ln) : k \in LeafKinds \cup OtherKinds}

\* the statements nested in a block
BlockStmts(ln) ==
  {Simple("Pass", ln), Simple("Break", ln), Simple("ClassDef", ln),
   Assign(<<XStore>>, Constant, ln), Assign(<<XStore>>, Y, ln), Expr(Call(F, <<X>>), ln)}

Blocks(ln) ==
  {<<s>> : s \in BlockStmts(ln)}
    \cup {<<s, t>> : s \in BlockStmts(ln), t \in BlockStmts(ln + 1) \ {Simple("ClassDef", ln + 1)}}

\* no else clause, or one statement in it
ElseBlocks(ln) == {<<>>} \cup {<<s>> : s \in BlockStmts(ln)}

\* the iterable of a for, the test of a while or an if
Headers ==
  {Constant, X, Compare(X, <<"Lt">>, <<Y>>), Call(F, <<>>), Call(F, <<Constant>>),
   List(<<>>, "Load"), BinOp(X, "Add", Y), UnaryOp(X)}

Branchings(body, orelse, ln) ==
  {For(XStore, h, body, orelse, ln) : h \in Headers}
    \cup {While(h, body, orelse, ln) : h \in Headers}
    \cup {If(h, body, orelse, ln) : h \in Headers}

\* a for / while / if over a block of leaf statements
FlatStmts(ln) ==
  UNION {Branchings(body, orelse, ln) : body \in Blocks(ln + 1), orelse \in ElseBlocks(ln + 4)}

\* a for / while / if nested in the body of another, and the elif chains
InnerStmts(ln) ==
  UNION {{For(XStore, h, <<s>>, orelse, ln), While(h, <<s>>, orelse, ln), If(h, <<s>>, orelse, ln)} :
           h \in {X, Call(F, <<Constant>>)},
           s \in {Simple("Pass", ln + 1), Assign(<<XStore>>, Y, ln + 1)},
           orelse \in {<<>>, <<Simple("Pass", ln + 3)>>, <<Simple("ClassDef", ln + 3)>>}}

NestedStmts(ln) ==
  UNION {Branchings(<<s>>, <<>>, ln) : s \in InnerStmts(ln + 1)}
    \cup {If(h, <<Simple("Pass", ln + 1)>>, <<s>>, ln) :
            h \in {X, Compare(X, <<"Lt">>, <<Y>>)}, s \in {t \in InnerStmts(ln + 2) : t.kind = "If"}}

\* if h0: s elif h1: s elif h2: s [else: t]
ElifChains(ln) ==
  {If(h0, <<s0>>, <<If(h1, <<s1>>, <<If(h2, <<s2>>, last, ln + 4)>>, ln + 2)>>, ln) :
     h0 \in {X, Compare(X, <<"Lt">>, <<Y>>)},
     h1 \in {Constant, BinOp(X, "Add", Y)},
     h2 \in {X, Call(F, <<X>>)},
     s0 \in {Simple("Pass", ln + 1), Assign(<<XStore>>, Y, ln + 1)},
     s1 \in {Simple("Pass", ln + 3), Assign(<<XStore>>, Y, ln + 3)},
     s2 \in {Simple("Pass", ln + 5), Assign(<<XStore>>, Y, ln + 5)},
     last \in {<<>>, <<Simple("Pass", ln + 7)>>}}

Stmts(ln) == LeafStmts(ln) \cup FlatStmts(ln) \cup NestedStmts(ln) \cup ElifChains(ln)

\* the top-level statements of the modules
TopStmts(ln) ==
  {Simple("Pass", ln), Simple("ClassDef", ln), Assign(<<XStore>>, Constant, ln),
   Assign(<<XStore>>, List(<<>>, "Load"), ln), Expr(Call(Attribute(X, "Load"), <<Y>>), ln),
   While(X, <<Simple("Pass", ln + 1)>>, <<Simple("ClassDef", ln + 3)>>, ln),
   For(XStore, Call(F, <<Constant>>), <<Assign(<<YStore>>, X, ln + 1)>>, <<>>, ln),
   If(X, <<Simple("Pass", ln + 1)>>, <<Simple("ClassDef", ln + 3)>>, ln)}

Modules ==
  {Module(<<>>)}
    \cup {Module(<<s>>) : s \in TopStmts(1)}
    \cup {Module(<<Assign(<<XStore>>, Constant, 1), t>>) :
            t \in {Simple("Pass", 2), Simple("ClassDef", 2)}}

\* the modules of one statement with a for / while / if nested in another
NestedModules == {Module(<<s>>) : s \in NestedStmts(1)}

\* a file name, by the three tests main applies to it
FileNames ==
  {[py |-> TRUE, wrapped |-> FALSE, largest |-> TRUE],
   [py |-> TRUE, wrapped |-> TRUE, largest |-> TRUE],
   [py |-> FALSE, wrapped |-> FALSE, largest |-> FALSE]}

\* a file of the walked directory: its name and what ast.parse makes of its text
Files == [name : FileNames, tree : Modules]

SeqsUpTo(S, n) == UNION {[1..k -> S] : k \in 0..n}

\* ------------------------------------------------------------------------
\* State
\* ------------------------------------------------------------------------
VARIABLES
  files,   \* main: the files os.walk yields, in order
  idx,     \* main: how many of them the loop has passed
  out,     \* what compute_cccp has printed: the path and the two scores
  pc,      \* "walk" / "done" in main, "call" / "returned" for a direct call, "raised"
  call,    \* the arguments of the last direct call, if any
  cct,     \* the tree create_cctree returned, if any
  raised,  \* the exception that left the call (and main), if any
  pd,      \* the last value of get_depth_plan(), if any
  mpi,     \* the last value of get_mpi(), if any
  depth_ops,   \* the pair a direct call of expression_depth returned, if any
  identifiers  \* the flag and the set of a direct call of get_expression_identifiers, if any

vars == <<files, idx, out, pc, call, cct, raised, pd, mpi, depth_ops, identifiers>>

Args(node, parent_plan_depth, branch_depth) ==
  [node |-> node, parent_plan_depth |-> parent_plan_depth, branch_depth |-> branch_depth]

\* ------------------------------------------------------------------------
\* main.py: the walk over the files
\* ------------------------------------------------------------------------
\* file.endswith(".py") and 'wrapped' not in file and 'largest_number_in_array' in file
Selected(name) == name.py /\ ~name.wrapped /\ name.largest

Init ==
  /\ files \in SeqsUpTo(Files, MaxFiles)
  /\ idx = 0
  /\ out = <<>>
  /\ pc = "walk"
  /\ call = <<>>
  /\ cct = <<>>
  /\ raised = <<>>
  /\ pd = <<>>
  /\ mpi = <<>>
  /\ depth_ops = <<>>
  /\ identifiers = <<>>

\* the file does not pass the test: next file
MainSkips ==
  /\ pc = "walk"
  /\ idx < Len(files)
  /\ ~Selected(files[idx + 1].name)
  /\ idx' = idx + 1
  /\ UNCHANGED <<files, out, pc, call, cct, raised, pd, mpi, depth_ops, identifiers>>

\* compute_cccp builds the tree and prints the two scores
ComputeCccpPrints ==
  /\ pc = "walk"
  /\ idx < Len(files)
  /\ Selected(files[idx + 1].name)
  /\ LET r == create_cctree(files[idx + 1].tree, 0, 0)
     IN /\ ~Raised(r)
        /\ call' = <<Args(files[idx + 1].tree, 0, 0)>>
        /\ cct' = <<r.val>>
        /\ pd' = <<get_depth_plan(r.val)>>
        /\ mpi' = <<get_mpi(r.val)>>
        /\ out' = Append(out, [path |-> idx + 1, pd |-> get_depth_plan(r.val), mpi |-> get_mpi(r.val)])
  /\ idx' = idx + 1
  /\ UNCHANGED <<files, pc, raised, depth_ops, identifiers>>

\* create_cctree raises: nothing catches it, neither compute_cccp nor main
ComputeCccpRaises ==
  /\ pc = "walk"
  /\ idx < Len(files)
  /\ Selected(files[idx + 1].name)
  /\ LET r == create_cctree(files[idx + 1].tree, 0, 0)
     IN /\ Raised(r)
        /\ call' = <<Args(files[idx + 1].tree, 0, 0)>>
        /\ raised' = <<r>>
  /\ cct' = <<>>
  /\ pd' = <<>>
  /\ mpi' = <<>>
  /\ pc' = "raised"
  /\ UNCHANGED <<files, idx, out, depth_ops, identifiers>>

\* the walk is over
MainReturns ==
  /\ pc = "walk"
  /\ idx = Len(files)
  /\ pc' = "done"
  /\ UNCHANGED <<files, idx, out, call, cct, raised, pd, mpi, depth_ops, identifiers>>

Next == MainSkips \/ ComputeCccpPrints \/ ComputeCccpRaises \/ MainReturns

Spec == Init /\ [][Next]_vars

\* ------------------------------------------------------------------------
\* Direct calls of create_cctree, get_depth_plan and get_mpi
\* ------------------------------------------------------------------------
InitBuild ==
  /\ files = <<>>
  /\ idx = 0
  /\ out = <<>>
  /\ pc = "call"
  /\ call \in {<<Args(n, p, b)>> :
                n \in Stmts(1) \cup Modules \cup NestedModules, p \in 0..MaxP, b \in 0..MaxB}
  /\ cct = <<>>
  /\ raised = <<>>
  /\ pd = <<>>
  /\ mpi = <<>>
  /\ depth_ops = <<>>
  /\ identifiers = <<>>

CreateCctreeReturns ==
  /\ pc = "call"
  /\ LET r == create_cctree(call[1].node, call[1].parent_plan_depth, call[1].branch_depth)
     IN /\ ~Raised(r)
        /\ cct' = <<r.val>>
  /\ pc' = "returned"
  /\ UNCHANGED <<files, idx, out, call, raised, pd, mpi, depth_ops, identifiers>>

CreateCctreeRaises ==
  /\ pc = "call"
  /\ LET r == create_cctree(call[1].node, call[1].parent_plan_depth, call[1].branch_depth)
     IN /\ Raised(r)
        /\ raised' = <<r>>
  /\ pc' = "raised"
  /\ UNCHANGED <<files, idx, out, call, cct, pd, mpi, depth_ops, identifiers>>

GetDepthPlan ==
  /\ pc = "returned"
  /\ pd' = <<get_depth_plan(cct[1])>>
  /\ UNCHANGED <<files, idx, out, pc, call, cct, raised, mpi, depth_ops, identifiers>>

\* get_mpi keeping its result in the mpi field of the node it was called on
GetMpi_storing ==
  /\ pc = "returned"
  /\ mpi' = <<get_mpi(cct[1])>>
  /\ cct' = <<[cct[1] EXCEPT !.mpi = get_mpi(cct[1])]>>
  /\ UNCHANGED <<files, idx, out, pc, call, raised, pd, depth_ops, identifiers>>

GetMpi ==
  /\ pc = "returned"
  /\ mpi' = <<get_mpi(cct[1])>>
  /\ UNCHANGED <<files, idx, out, pc, call, cct, raised, pd, depth_ops, identifiers>>

NextBuild == CreateCctreeReturns \/ CreateCctreeRaises \/ GetDepthPlan \/ GetMpi

SpecBuild == InitBuild /\ [][NextBuild]_vars

\* ------------------------------------------------------------------------
\* get_depth_plan and get_mpi on any tree of CCTree objects
\* ------------------------------------------------------------------------
Scores == 0..MaxScore

\* CCTree objects made with the constructor, whatever their scores
TreeLeaves == {CCTree(Simple("Pass", 1), d, 1, 0, m, <<>>) : d, m \in Scores}

TreesOver(children) ==
  {CCTree(Simple("Pass", 1), d, 1, 0, m, <<c>>) : d, m \in Scores, c \in children}

ConstructedTrees ==
  TreeLeaves
    \cup TreesOver(TreeLeaves)
    \cup {CCTree(Simple("Pass", 1), d, 1, 0, m, <<c1, c2>>) :
            d, m \in Scores, c1, c2 \in TreeLeaves}
    \cup TreesOver(TreesOver(TreeLeaves))

\* the trees create_cctree returns for the modules
BuiltTrees ==
  {create_cctree(m, 0, 0).val : m \in {n \in Modules : ~Raised(create_cctree(n, 0, 0))}}

InitTree ==
  /\ files = <<>>
  /\ idx = 0
  /\ out = <<>>
  /\ pc = "returned"
  /\ call = <<>>
  /\ cct \in {<<t>> : t \in ConstructedTrees \cup BuiltTrees}
  /\ raised = <<>>
  /\ pd = <<>>
  /\ mpi = <<>>
  /\ depth_ops = <<>>
  /\ identifiers = <<>>

NextTree == GetDepthPlan \/ GetMpi

SpecTree == InitTree /\ [][NextTree]_vars

\* ------------------------------------------------------------------------
\* Direct calls of expression_depth and get_expression_identifiers
\* ------------------------------------------------------------------------
BinOps == {"Add", "Mult"}
CmpOps == {"Lt", "Eq"}
BoolOps == {"And", "Or"}

\* the expressions of one operator over 1, x, y
Exprs1 ==
  Leaves
    \cup {Attribute(X, "Load")}
    \cup {BinOp(a, op, b) : a, b \in Leaves, op \in BinOps}
    \cup {Compare(a, <<op>>, <<b>>) : a, b \in Leaves, op \in CmpOps}
    \cup {Compare(X, <<"Lt", "Lt">>, <<a, b>>) : a, b \in Leaves}
    \cup {UnaryOp(a) : a \in Leaves}
    \cup {BoolOp(op, vs) : op \in BoolOps, vs \in SeqsUpTo({X, Y}, MaxElts)}
    \cup {Call(fn, as) : fn \in {F, Attribute(X, "Load")}, as \in SeqsUpTo({Constant, X}, MaxElts)}
    \cup {List(es, "Load") : es \in SeqsUpTo({Constant, X}, MaxElts)}
    \cup {Tuple(es, "Load") : es \in SeqsUpTo({Constant, X}, MaxElts)}
    \cup {Subscript(X, a, "Load") : a \in Leaves}

\* the operands of the expressions of two operators
Operands ==
  {Constant, X, List(<<>>, "Load"), List(<<X>>, "Load"),
   BinOp(X, "Add", Y), BinOp(X, "Mult", Y), Compare(X, <<"Lt">>, <<Y>>),
   UnaryOp(X), BoolOp("And", <<X, Y>>), BoolOp("Or", <<X, Y>>),
   Call(F, <<X>>), Subscript(X, Y, "Load")}

Exprs2 ==
  {BinOp(a, op, b) : a, b \in Operands, op \in BinOps}
    \cup {Compare(a, <<op>>, <<b>>) : a, b \in Operands, op \in CmpOps}
    \cup {BoolOp(op, <<a, b>>) : a, b \in Operands, op \in BoolOps}
    \cup {UnaryOp(a) : a \in Operands}
    \cup {Call(F, <<a>>) : a \in Operands}
    \cup {List(<<a>>, "Load") : a \in Operands}
    \cup {Tuple(<<a, b>>, "Load") : a, b \in Operands}
    \cup {Subscript(a, b, "Load") : a, b \in Operands}

\* a o b o c and a o1 (b o2 c) over the identifiers
Chains ==
  {BinOp(BinOp(a, o, b), o, c) : a, b, c \in {X, Y}, o \in BinOps}
    \cup {BinOp(a, o1, BinOp(b, o2, c)) : a, b, c \in {X, Y}, o1, o2 \in BinOps}

\* what stands on the left of an assignment, or after for
StoreExprs ==
  {XStore,
   Tuple(<<XStore, YStore>>, "Store"),
   List(<<XStore, YStore>>, "Store"),
   Tuple(<<XStore, Tuple(<<YStore>>, "Store")>>, "Store"),
   Subscript(X, Y, "Store"),
   Tuple(<<YStore, Subscript(X, Y, "Store")>>, "Store")}

\* a binary operation over a unary operation or a call that holds another
Wrapped ==
  {BinOp(UnaryOp(BinOp(X, o1, Y)), o2, c) : o1, o2 \in BinOps, c \in {Constant, X}}
    \cup {BinOp(c, o2, Call(F, <<BinOp(X, o1, Y)>>)) : o1, o2 \in BinOps, c \in {Constant, X}}

Exprs == Exprs1 \cup Exprs2 \cup Chains \cup StoreExprs \cup Wrapped

InitExpr ==
  /\ files = <<>>
  /\ idx = 0
  /\ out = <<>>
  /\ pc = "call"
  /\ call \in {<<[node |-> e]>> : e \in Exprs}
  /\ cct = <<>>
  /\ raised = <<>>
  /\ pd = <<>>
  /\ mpi = <<>>
  /\ depth_ops = <<>>
  /\ identifiers = <<>>

ExpressionDepthReturns ==
  /\ pc = "call"
  /\ LET r == expression_depth(call[1].node)
     IN /\ ~Raised(r)
        /\ depth_ops' = <<r>>
  /\ UNCHANGED <<files, idx, out, pc, call, cct, raised, pd, mpi, identifiers>>

ExpressionDepthRaises ==
  /\ pc = "call"
  /\ LET r == expression_depth(call[1].node)
     IN /\ Raised(r)
        /\ raised' = <<r>>
  /\ pc' = "raised"
  /\ UNCHANGED <<files, idx, out, call, cct, pd, mpi, depth_ops, identifiers>>

GetExpressionIdentifiers ==
  /\ pc = "call"
  /\ \E exclude_store_identifiers \in BOOLEAN :
       identifiers' =
         <<[exclude_store_identifiers |-> exclude_store_identifiers,
            val |-> get_expression_identifiers(call[1].node, exclude_store_identifiers)]>>
  /\ UNCHANGED <<files, idx, out, pc, call, cct, raised, pd, mpi, depth_ops>>

NextExpr == ExpressionDepthReturns \/ ExpressionDepthRaises \/ GetExpressionIdentifiers

SpecExpr == InitExpr /\ [][NextExpr]_vars

\* ------------------------------------------------------------------------
\* Notions the properties are stated with
\* ------------------------------------------------------------------------
\* the statement kinds with a branch in create_cctree
SupportedKind(stmt) ==
  \/ stmt.kind \in {"Module", "Assign", "AugAssign", "For", "While", "If",
                    "Break", "Continue", "Pass", "Import", "ImportFrom"}
  \/ stmt.kind = "Expr" /\ stmt.value.kind = "Call"

\* the statements in the statement positions of a unit: the module body, the
\* body and the else clause of a for or a while, both branches of an if
RECURSIVE StatementsIn(_)
StatementsIn(stmt) ==
  LET nested == IF stmt.kind = "Module" THEN stmt.body
                ELSE IF stmt.kind \in {"For", "While", "If"} THEN stmt.body \o stmt.orelse
                ELSE <<>>
  IN {stmt} \cup UNION {StatementsIn(nested[i]) : i \in DOMAIN nested}

HasUnsupported(stmt) == \E t \in StatementsIn(stmt) : ~SupportedKind(t)

\* the direct call under way has ended, by a return or by an exception
Ended == pc \in {"returned", "raised"} /\ call # <<>>

\* C1: create_cctree on a statement of an unsupported kind fails with the
\* unsupported-construct error, and the error carries the kind of the node
\* and its source line.
C1_UnsupportedNamesKindAndLine ==
  (Ended /\ ~SupportedKind(call[1].node)) =>
    /\ pc = "raised"
    /\ raised[1].exc = "NotImplementedError"
    /\ raised[1].kind = call[1].node.kind
    /\ "line" \in DOMAIN raised[1]
    /\ raised[1].line = call[1].node.lineno

\* C2: a unit with a statement of an unsupported kind in any statement
\* position fails with the unsupported-construct error and nothing is
\* printed for it.
C2_UnsupportedAnywhereFails ==
  \A i \in DOMAIN files :
    (Selected(files[i].name) /\ HasUnsupported(files[i].tree)) =>
      /\ idx < i
      /\ \A k \in DOMAIN out : out[k].path # i
      /\ (pc = "raised" /\ idx + 1 = i) => raised[1].exc = "NotImplementedError"

\* C3: expressions never make the analysis fail: kinds without a branch give
\* (0, {}), and create_cctree raises nothing but the unsupported-construct
\* error of a statement.
C3_ExpressionsNeverFail ==
  /\ expression_depth(Attribute(X, "Load")) = DepthOps(0, {})
  /\ (Ended /\ pc = "raised") =>
       /\ raised[1].exc = "NotImplementedError"
       /\ HasUnsupported(call[1].node)

\* C4: when main has ended, every selected unit that create_cctree accepts
\* has had its scores printed, whatever happened to the units before it.
C4_FailureDoesNotAffectOthers ==
  pc \in {"done", "raised"} =>
    \A i \in DOMAIN files :
      (Selected(files[i].name) /\ ~Raised(create_cctree(files[i].tree, 0, 0))) =>
        \E k \in DOMAIN out : out[k].path = i

\* the identifiers of the Name nodes of a target that are in the given context
RECURSIVE NamesIn(_, _)
NamesIn(e, ctx) ==
  CASE e.kind = "Name" -> IF e.ctx = ctx THEN {e.id} ELSE {}
    [] e.kind \in {"List", "Tuple"} -> UNION {NamesIn(e.elts[i], ctx) : i \in DOMAIN e.elts}
    [] e.kind = "Subscript" -> NamesIn(e.value, ctx) \cup NamesIn(e.slice, ctx)
    [] e.kind = "Attribute" -> NamesIn(e.value, ctx)
    [] OTHER -> {}

\* the identifiers of a target, those that are only stored to left out
ReadIdentifiers(t) ==
  get_expression_identifiers(t, FALSE) \ (NamesIn(t, "Store") \ NamesIn(t, "Load"))

\* the arguments and the result of the direct call
TheNode == call[1].node
P == call[1].parent_plan_depth
B == call[1].branch_depth
Depth(e) == expression_depth(e).depth

\* C5: an assignment gives a childless node with plan_depth = P + A and
\* mpi = |ids| + A + B - 1, A = max(depth(v) + 1, max depth of the targets),
\* ids = identifiers of v and of the targets, pure-store identifiers excluded.
C5_AssignNode ==
  (Ended /\ TheNode.kind = "Assign") =>
    /\ pc = "returned"
    /\ LET A == Max({Depth(TheNode.value) + 1}
                      \cup {Depth(TheNode.targets[i]) : i \in DOMAIN TheNode.targets})
           ids == get_expression_identifiers(TheNode.value, FALSE)
                    \cup UNION {ReadIdentifiers(TheNode.targets[i]) : i \in DOMAIN TheNode.targets}
       IN cct[1] = CCTree(TheNode, P + A, TheNode.lineno, B, Cardinality(ids) + A + B - 1, <<>>)

\* C6: an augmented assignment gives a childless node with plan_depth = P + A
\* and mpi = |ids| + A + B - (1 if depth(v) > 0 else 0),
\* A = max(depth(v) + 1, depth(t)) + 1, ids = identifiers of v and of t.
C6_AugAssignNode ==
  (Ended /\ TheNode.kind = "AugAssign") =>
    /\ pc = "returned"
    /\ LET A == Max({Depth(TheNode.value) + 1, Depth(TheNode.target)}) + 1
           ids == get_expression_identifiers(TheNode.value, FALSE)
                    \cup get_expression_identifiers(TheNode.target, FALSE)
       IN cct[1] = CCTree(TheNode, P + A, TheNode.lineno, B,
                          Cardinality(ids) + A + B - (IF Depth(TheNode.value) > 0 THEN 1 ELSE 0),
                          <<>>)

IsCallStmt(stmt) == stmt.kind = "Expr" /\ stmt.value.kind = "Call"

\* C7: a call statement with arguments, whatever its callee, gives a
\* childless node with plan_depth = P + D + 1 and
\* mpi = |ids| + D + B + (1 if |ids| = 0 else 0), D = max depth of the
\* arguments, ids = identifiers of the arguments and the callee's name.
C7_CallWithArgsNode ==
  (Ended /\ IsCallStmt(TheNode) /\ TheNode.value.args # <<>>) =>
    /\ pc = "returned"
    /\ LET args == TheNode.value.args
           D == Max({Depth(args[i]) : i \in DOMAIN args})
           ids == UNION {get_expression_identifiers(args[i], FALSE) : i \in DOMAIN args}
                    \cup (IF TheNode.value.func.kind = "Name" THEN {TheNode.value.func.id} ELSE {})
       IN cct[1] = CCTree(TheNode, P + D + 1, TheNode.lineno, B,
                          Cardinality(ids) + D + B + (IF ids = {} THEN 1 ELSE 0), <<>>)

\* the header expression and the nested statements of a for / while / if
HeaderOf(stmt) == IF stmt.kind = "For" THEN stmt.iter ELSE stmt.test
NestedOf(stmt) == IF stmt.kind = "If" THEN stmt.body \o stmt.orelse ELSE stmt.body

\* C8: a for / while / if with header h gives a node with
\* plan_depth = P + depth(h) + 1 and mpi = |ids(h)| + depth(h) + B +
\* (1 if ids(h) is empty else 0), whose children are the nested statements
\* built with that plan_depth and with branch depth B + 1 (when they build).
C8_BranchingNode ==
  (/\ Ended
   /\ TheNode.kind \in {"For", "While", "If"}
   /\ \A t \in Range(NestedOf(TheNode)) : ~HasUnsupported(t)) =>
    /\ pc = "returned"
    /\ LET h == HeaderOf(TheNode)
           nested == NestedOf(TheNode)
           ids == get_expression_identifiers(h, FALSE)
           t == cct[1]
       IN /\ t.node = TheNode
          /\ t.line = TheNode.lineno
          /\ t.branch_depth = B
          /\ t.plan_depth = P + Depth(h) + 1
          /\ t.mpi = Cardinality(ids) + Depth(h) + B + (IF ids = {} THEN 1 ELSE 0)
          /\ Len(t.subtrees) = Len(nested)
          /\ \A i \in DOMAIN nested :
               Returned(t.subtrees[i]) = create_cctree(nested[i], t.plan_depth, B + 1)

\* C9: break, continue, pass, import, from-import and a call statement
\* without arguments give a childless node with plan_depth = P + 1,
\* branch_depth = B and mpi = B + 1.
C9_LeafNode ==
  (/\ Ended
   /\ \/ TheNode.kind \in {"Break", "Continue", "Pass", "Import", "ImportFrom"}
      \/ IsCallStmt(TheNode) /\ TheNode.value.args = <<>>) =>
    /\ pc = "returned"
    /\ cct[1] = CCTree(TheNode, P + 1, TheNode.lineno, B, B + 1, <<>>)

\* a call of a method without arguments, inside a block, has been built
C9_Witness ==
  /\ pc = "returned"
  /\ B = 1
  /\ P = 1
  /\ IsCallStmt(TheNode)
  /\ TheNode.value.args = <<>>
  /\ TheNode.value.func.kind = "Attribute"
  /\ cct[1].mpi = 2

\* the childless nodes of a tree
RECURSIVE LeavesOf(_)
LeavesOf(t) ==
  IF t.subtrees = <<>> THEN {t}
  ELSE UNION {LeavesOf(t.subtrees[i]) : i \in DOMAIN t.subtrees}

\* C10: get_depth_plan returns the maximum plan_depth over the childless
\* nodes of the tree; the plan_depth of a node with children does not count.
C10_DepthPlanOverLeaves ==
  pd # <<>> => pd[1] = Max({n.plan_depth : n \in LeavesOf(cct[1])})

\* for x in f(1): y = x : the result is the plan_depth of the assignment,
\* not that of the for node
C10_Witness ==
  /\ pd # <<>>
  /\ cct[1].node.kind = "Module"
  /\ Len(cct[1].subtrees) = 1
  /\ cct[1].subtrees[1].node.kind = "For"
  /\ cct[1].subtrees[1].subtrees[1].node.kind = "Assign"
  /\ pd[1] = cct[1].subtrees[1].subtrees[1].plan_depth
  /\ pd[1] > cct[1].subtrees[1].plan_depth

\* every node of a tree
RECURSIVE NodesOf(_)
NodesOf(t) ==
  {t} \cup UNION {NodesOf(t.subtrees[i]) : i \in DOMAIN t.subtrees}

\* C11: get_mpi returns the maximum mpi over all the nodes of the tree,
\* the nodes with children included.
C11_MpiOverAllNodes ==
  mpi # <<>> => mpi[1] = Max({n.mpi : n \in NodesOf(cct[1])})

\* the mpi of a node with children is above that of every node below it,
\* and it is the result
C11_Witness ==
  /\ mpi # <<>>
  /\ cct[1].subtrees # <<>>
  /\ \A n \in NodesOf(cct[1]) \ {cct[1]} : n.mpi < cct[1].mpi
  /\ mpi[1] = cct[1].mpi

\* expression_depth has been called on the expression and has ended
Evaluated == call # <<>> /\ (depth_ops # <<>> \/ pc = "raised")

\* C12: for a list or tuple literal expression_depth returns
\* (maximum of the element depths + 1, {}) when it has elements and (1, {})
\* when it has none.
C12_ContainerDepth ==
  (Evaluated /\ TheNode.kind \in {"List", "Tuple"}) =>
    /\ depth_ops # <<>>
    /\ depth_ops[1] =
         IF TheNode.elts = <<>> THEN DepthOps(1, {})
         ELSE DepthOps(Max({Depth(TheNode.elts[i]) : i \in DOMAIN TheNode.elts}) + 1, {})

\* the identifiers an expression only stores to
PureStore(e) == NamesIn(e, "Store") \ NamesIn(e, "Load")

\* C13: with exclude_store_identifiers=True, get_expression_identifiers
\* returns no identifier that the expression only stores to, wherever in the
\* expression it occurs, inside a tuple or list target included.
C13_StoreIdentifiersOmitted ==
  (call # <<>> /\ identifiers # <<>> /\ identifiers[1].exclude_store_identifiers) =>
    identifiers[1].val \cap PureStore(TheNode) = {}

\* C14: for a comparison, depth = max(depth(L), maximum depth of the
\* comparators) + (1 if the tag of the comparison is not in the operator sets
\* of L and of the comparators), and the operator set returned is the union
\* of the operator sets of L and of the comparators and the tag.
C14_CompareRule ==
  (Evaluated /\ TheNode.kind = "Compare") =>
    /\ depth_ops # <<>>
    /\ LET l == expression_depth(TheNode.left)
           cs == [i \in DOMAIN TheNode.comparators |-> expression_depth(TheNode.comparators[i])]
           child_ops == l.ops \cup UNION {cs[i].ops : i \in DOMAIN cs}
       IN depth_ops[1] =
            DepthOps(Max({l.depth, MaxDepth(cs)}) + (IF "list" \in child_ops THEN 0 ELSE 1),
                     child_ops \cup {"list"})

\* C15: for a binary operation with operator o, depth = max(left depth,
\* right depth) + (1 if o is in neither operand's operator set), and the
\* operator set returned is the union of the two sets and {o}.
C15_BinOpRule ==
  (Evaluated /\ TheNode.kind = "BinOp") =>
    /\ depth_ops # <<>>
    /\ LET l == expression_depth(TheNode.left)
           r == expression_depth(TheNode.right)
       IN depth_ops[1] =
            DepthOps(Max({l.depth, r.depth}) + (IF TheNode.op \in l.ops \cup r.ops THEN 0 ELSE 1),
                     l.ops \cup r.ops \cup {TheNode.op})

\* C16: for and / or over operands vs the result is (0, {}) when vs is
\* empty, and otherwise depth = maximum operand depth + (1 if no operand's
\* operator set holds the operator already).
C16_BoolOpRule ==
  (Evaluated /\ TheNode.kind = "BoolOp") =>
    /\ depth_ops # <<>>
    /\ IF TheNode.values = <<>> THEN depth_ops[1] = DepthOps(0, {})
       ELSE LET vs == [i \in DOMAIN TheNode.values |-> expression_depth(TheNode.values[i])]
            IN depth_ops[1].depth =
                 MaxDepth(vs)
                   + (IF \E i \in DOMAIN vs : CharsOf(TheNode.op) \subseteq vs[i].ops THEN 0 ELSE 1)

\* C17: for a subscript, depth = max(depth(base), depth(index)) + 1 when the
\* base is not a subscript and depth(base) + depth(index) + 1 when it is;
\* the operator set returned is empty.
C17_SubscriptRule ==
  (Evaluated /\ TheNode.kind = "Subscript") =>
    /\ depth_ops # <<>>
    /\ depth_ops[1] =
         IF TheNode.value.kind = "Subscript"
         THEN DepthOps(Depth(TheNode.value) + Depth(TheNode.slice) + 1, {})
         ELSE DepthOps(Max({Depth(TheNode.value), Depth(TheNode.slice)}) + 1, {})

\* C18: for identifiers a, b, c and two distinct kinds of binary operator
\* o1, o2, the depth of a o1 (b o2 c) is one more than that of a o1 b o1 c.
C18_OperatorDiversity ==
  \A a, b, c \in {X, Y} : \A o1, o2 \in BinOps :
    (call # <<>> /\ depth_ops # <<>> /\ o1 # o2 /\ TheNode = BinOp(a, o1, BinOp(b, o2, c))) =>
      depth_ops[1].depth = expression_depth(BinOp(BinOp(a, o1, b), o1, c)).depth + 1

\* x + y * x has depth 3, x + y + x has depth 2
C18_Witness ==
  /\ call # <<>>
  /\ depth_ops # <<>>
  /\ TheNode = BinOp(X, "Add", BinOp(Y, "Mult", X))
  /\ depth_ops[1].depth = 3
  /\ expression_depth(BinOp(BinOp(X, "Add", Y), "Add", X)).depth = 2

BranchingKinds == {"For", "While", "If"}

\* every node of t has branch_depth = n + the number of for / while / if
\* nodes on the path from t to it, itself left out
RECURSIVE BranchDepthsFrom(_, _)
BranchDepthsFrom(t, n) ==
  /\ t.branch_depth = n
  /\ \A i \in DOMAIN t.subtrees :
       BranchDepthsFrom(t.subtrees[i], IF t.node.kind \in BranchingKinds THEN n + 1 ELSE n)

\* C19: in every tree create_cctree builds, the branch_depth of a node is
\* that of the root (0 for the module of compute_cccp) plus the number of
\* for / while / if nodes among its proper ancestors: a child of a for /
\* while / if has its parent's + 1, a child of the module has the module's.
C19_BranchDepthCountsAncestors ==
  (call # <<>> /\ pc = "returned") => BranchDepthsFrom(cct[1], B)

\* a module built with (0, 0): the statement in an if in a top-level for has
\* branch_depth 2
C19_Witness ==
  /\ call # <<>>
  /\ pc = "returned"
  /\ TheNode.kind = "Module"
  /\ P = 0
  /\ B = 0
  /\ Len(cct[1].subtrees) = 1
  /\ cct[1].subtrees[1].node.kind = "For"
  /\ cct[1].subtrees[1].branch_depth = 0
  /\ cct[1].subtrees[1].subtrees[1].node.kind = "If"
  /\ cct[1].subtrees[1].subtrees[1].branch_depth = 1
  /\ cct[1].subtrees[1].subtrees[1].subtrees[1].subtrees = <<>>
  /\ cct[1].subtrees[1].subtrees[1].subtrees[1].branch_depth = 2

\* each child's plan_depth is at least its parent's, all through the tree
RECURSIVE NonDecreasing(_)
NonDecreasing(t) ==
  \A i \in DOMAIN t.subtrees :
    /\ t.subtrees[i].plan_depth >= t.plan_depth
    /\ NonDecreasing(t.subtrees[i])

\* C20: in every tree create_cctree builds, plan_depth is non-decreasing
\* along every path from the root to a leaf.
C20_PlanDepthNonDecreasing ==
  (call # <<>> /\ pc = "returned") => NonDecreasing(cct[1])

\* a module with a while in a while: the plan_depth grows at each level
C20_Witness ==
  /\ call # <<>>
  /\ pc = "returned"
  /\ TheNode.kind = "Module"
  /\ Len(cct[1].subtrees) = 1
  /\ cct[1].subtrees[1].node.kind = "While"
  /\ cct[1].subtrees[1].subtrees[1].node.kind = "While"
  /\ cct[1].subtrees[1].subtrees[1].subtrees # <<>>
  /\ cct[1].plan_depth < cct[1].subtrees[1].plan_depth
  /\ cct[1].subtrees[1].plan_depth < cct[1].subtrees[1].subtrees[1].plan_depth
  /\ cct[1].subtrees[1].subtrees[1].plan_depth < cct[1].subtrees[1].subtrees[1].subtrees[1].plan_depth

\* a module built the way compute_cccp builds it
ModuleBuilt ==
  /\ call # <<>>
  /\ pc = "returned"
  /\ TheNode.kind = "Module"
  /\ P = 0
  /\ B = 0

\* C21: for the tree create_cctree(module, 0, 0) builds, get_depth_plan()
\* and get_mpi() are >= 0; for a module without statements the root has no
\* children and both are 0.
C21_ScoresNotNegative ==
  ModuleBuilt =>
    /\ pd # <<>> => pd[1] >= 0
    /\ mpi # <<>> => mpi[1] >= 0
    /\ TheNode.body = <<>> =>
         /\ cct[1].subtrees = <<>>
         /\ pd # <<>> => pd[1] = 0
         /\ mpi # <<>> => mpi[1] = 0

\* the module without statements has been built and both scores taken
C21_Witness ==
  /\ ModuleBuilt
  /\ TheNode.body = <<>>
  /\ pd = <<0>>
  /\ mpi = <<0>>

\* the names the identifier nodes of the inputs carry
Ids == {"x", "y", "f"}

\* the same syntax tree with the name of every identifier node replaced
RECURSIVE Rename(_, _)
RenameAll(nodes, rho) == [i \in DOMAIN nodes |-> Rename(nodes[i], rho)]

Rename(node, rho) ==
  CASE node.kind = "Name" -> [node EXCEPT !.id = rho[node.id]]
    [] node.kind = "BinOp" ->
         [node EXCEPT !.left = Rename(node.left, rho), !.right = Rename(node.right, rho)]
    [] node.kind = "Compare" ->
         [node EXCEPT !.left = Rename(node.left, rho), !.comparators = RenameAll(node.comparators, rho)]
    [] node.kind = "UnaryOp" -> [node EXCEPT !.operand = Rename(node.operand, rho)]
    [] node.kind = "BoolOp" -> [node EXCEPT !.values = RenameAll(node.values, rho)]
    [] node.kind = "Call" ->
         [node EXCEPT !.func = Rename(node.func, rho), !.args = RenameAll(node.args, rho)]
    [] node.kind \in {"List", "Tuple"} -> [node EXCEPT !.elts = RenameAll(node.elts, rho)]
    [] node.kind = "Subscript" ->
         [node EXCEPT !.value = Rename(node.value, rho), !.slice = Rename(node.slice, rho)]
    [] node.kind = "Attribute" -> [node EXCEPT !.value = Rename(node.value, rho)]
    [] node.kind = "Module" -> [node EXCEPT !.body = RenameAll(node.body, rho)]
    [] node.kind = "Assign" ->
         [node EXCEPT !.targets = RenameAll(node.targets, rho), !.value = Rename(node.value, rho)]
    [] node.kind = "AugAssign" ->
         [node EXCEPT !.target = Rename(node.target, rho), !.value = Rename(node.value, rho)]
    [] node.kind = "Expr" -> [node EXCEPT !.value = Rename(node.value, rho)]
    [] node.kind = "For" ->
         [node EXCEPT !.target = Rename(node.target, rho), !.iter = Rename(node.iter, rho),
                      !.body = RenameAll(node.body, rho), !.orelse = RenameAll(node.orelse, rho)]
    [] node.kind \in {"While", "If"} ->
         [node EXCEPT !.test = Rename(node.test, rho),
                      !.body = RenameAll(node.body, rho), !.orelse = RenameAll(node.orelse, rho)]
    [] OTHER -> node

\* what building a tree and taking its two scores gives: the exception, or
\* PlanDepth and MPI
Scored(node, parent_plan_depth, branch_depth) ==
  LET r == create_cctree(node, parent_plan_depth, branch_depth)
  IN IF Raised(r) THEN r
     ELSE [exc |-> "None", pd |-> get_depth_plan(r.val), mpi |-> get_mpi(r.val)]

\* the result of the direct call under way, once both scores are taken
Scoring == IF pc = "raised" THEN raised[1] ELSE [exc |-> "None", pd |-> pd[1], mpi |-> mpi[1]]
ScoresTaken == call # <<>> /\ (pc = "raised" \/ (pc = "returned" /\ pd # <<>> /\ mpi # <<>>))

\* C22, as the spec has it: two modules that differ only in the names their
\* identifier nodes carry have the same PlanDepth and the same MPI.
C22_AnyRenaming ==
  (ScoresTaken /\ pc = "returned" /\ TheNode.kind = "Module") =>
    \A rho \in [Ids -> Ids] : Scored(Rename(TheNode, rho), P, B) = Scoring

\* C22, amended: a syntax tree and the one got from it by renaming its
\* identifiers one-to-one have the same outcome: the same exception, or the
\* same PlanDepth and the same MPI.
C22_OneToOneRenaming ==
  ScoresTaken =>
    \A rho \in {r \in [Ids -> Ids] : \A a, b \in Ids : r[a] = r[b] => a = b} :
      Scored(Rename(TheNode, rho), P, B) = Scoring

\* a module that names identifiers, scored, and the module with its names
\* moved round (x to y, y to f, f to x), which is another module
C22_Witness ==
  /\ ScoresTaken
  /\ pc = "returned"
  /\ TheNode.kind = "Module"
  /\ mpi[1] >= 3
  /\ LET rho == [a \in Ids |-> IF a = "x" THEN "y" ELSE IF a = "y" THEN "f" ELSE "x"]
     IN /\ Rename(TheNode, rho) # TheNode
        /\ Scored(Rename(TheNode, rho), P, B) = Scoring

C24_LeafUnaryCallRule ==
  Evaluated =>
    /\ TheNode.kind = "Constant" => depth_ops = <<DepthOps(0, {})>>
    /\ TheNode.kind = "Name" => depth_ops = <<DepthOps(1, {})>>
    /\ TheNode.kind = "UnaryOp" =>
         /\ depth_ops # <<>>
         /\ depth_ops[1] = DepthOps(Depth(TheNode.operand) + 1, {})
    /\ TheNode.kind = "Call" =>
         /\ depth_ops # <<>>
         /\ depth_ops[1] =
              IF TheNode.args = <<>> THEN DepthOps(1, {})
              ELSE DepthOps(Max({Depth(TheNode.args[i]) : i \in DOMAIN TheNode.args}) + 1, {})
    /\ (/\ TheNode.kind = "BinOp"
        /\ {TheNode.left.kind, TheNode.right.kind} \subseteq {"UnaryOp", "Call", "Name", "Constant"}) =>
         /\ depth_ops # <<>>
         /\ depth_ops[1].depth = Max({Depth(TheNode.left), Depth(TheNode.right)}) + 1

\* the children of t are one node per statement of stmts, in that order
ChildrenAre(t, stmts) ==
  /\ Len(t.subtrees) = Len(stmts)
  /\ \A i \in DOMAIN stmts : t.subtrees[i].node = stmts[i]

\* C25: in a built tree the children of an if node are one node per
\* statement of the then-branch, in source order, followed by one node per
\* statement of the else-branch, in source order; the module root has one
\* child per top-level statement in source order, line 0 and mpi 0; a node
\* of a leaf statement kind has no children.
C25_ChildrenInSourceOrder ==
  (call # <<>> /\ pc = "returned") =>
    \A n \in NodesOf(cct[1]) :
      /\ n.node.kind = "If" => ChildrenAre(n, n.node.body \o n.node.orelse)
      /\ n.node.kind = "Module" =>
           /\ ChildrenAre(n, n.node.body)
           /\ n.line = 0
           /\ n.mpi = 0
      /\ n.node.kind \in {"Assign", "AugAssign", "Expr"} \cup LeafKinds => n.subtrees = <<>>

\* an if with two statements in its then-branch and one in its else-branch
\* has been built: three children, the one of the else-branch last
C25_Witness ==
  /\ call # <<>>
  /\ pc = "returned"
  /\ \E n \in NodesOf(cct[1]) :
       /\ n.node.kind = "If"
       /\ Len(n.node.body) = 2
       /\ Len(n.node.orelse) = 1
       /\ Len(n.subtrees) = 3
       /\ n.subtrees[3].node = n.node.orelse[1]
       /\ n.subtrees[1].node # n.subtrees[2].node

\* each child's plan_depth is above its parent's, all through the tree
RECURSIVE StrictlyIncreasing(_)
StrictlyIncreasing(t) ==
  \A i \in DOMAIN t.subtrees :
    /\ t.subtrees[i].plan_depth > t.plan_depth
    /\ StrictlyIncreasing(t.subtrees[i])

\* C26: in every tree create_cctree builds, each child's plan_depth is
\* strictly greater than its parent's; so when every for / while / if node
\* has a child, get_depth_plan() of the root is the maximum plan_depth over
\* all the nodes of the tree.
C26_PlanDepthStrictlyIncreasing ==
  (call # <<>> /\ pc = "returned") =>
    /\ StrictlyIncreasing(cct[1])
    /\ (/\ pd # <<>>
        /\ \A n \in NodesOf(cct[1]) : n.node.kind \in BranchingKinds => n.subtrees # <<>>) =>
         pd[1] = Max({n.plan_depth : n \in NodesOf(cct[1])})

\* a for with an if in it: get_depth_plan() is the plan_depth of the
\* innermost statement, which is above that of every other node
C26_Witness ==
  /\ call # <<>>
  /\ pc = "returned"
  /\ pd # <<>>
  /\ TheNode.kind = "For"
  /\ cct[1].subtrees[1].node.kind = "If"
  /\ pd[1] = Max({n.plan_depth : n \in NodesOf(cct[1])})
  /\ pd[1] > cct[1].subtrees[1].plan_depth
  /\ cct[1].subtrees[1].plan_depth > cct[1].plan_depth

\* an if whose else-branch is one if statement: the elif
HasElif(node) == node.kind = "If" /\ Len(node.orelse) = 1 /\ node.orelse[1].kind = "If"

\* the conditions and the branches of an if / elif chain, in order
RECURSIVE TestsOf(_)
TestsOf(node) == <<node.test>> \o (IF HasElif(node) THEN TestsOf(node.orelse[1]) ELSE <<>>)

RECURSIVE BranchesOf(_)
BranchesOf(node) == <<node.body>> \o (IF HasElif(node) THEN BranchesOf(node.orelse[1]) ELSE <<>>)

\* the node of the k-th elif of the chain built as t (t itself for k = 0):
\* the last child of the node before it
RECURSIVE IfNodeAt(_, _)
IfNodeAt(t, k) == IF k = 0 THEN t ELSE IfNodeAt(t.subtrees[Len(t.subtrees)], k - 1)

\* the sum of (test depth + 1) over the first n conditions
RECURSIVE SumTests(_, _)
SumTests(tests, n) == IF n = 0 THEN 0 ELSE SumTests(tests, n - 1) + Depth(tests[n]) + 1

\* the same leaf statement on another line
SameStatement(s, t) ==
  /\ s.kind = t.kind
  /\ s.kind \in {"Assign", "AugAssign", "Expr"} \cup LeafKinds
  /\ [s EXCEPT !.lineno = 0] = [t EXCEPT !.lineno = 0]

\* C27: in the tree built for an if / elif chain with parent plan depth P
\* and branch depth B, the k-th elif is an if node that is the child of the
\* if node before it; the statements of its branch are built with branch
\* depth B + k + 1 on the plan depth P + the sum of (test depth + 1) over the
\* first k + 1 conditions; a statement of a later branch has a higher
\* plan_depth and a higher mpi than the same statement in the first branch.
C27_ElifNesting ==
  (call # <<>> /\ pc = "returned" /\ TheNode.kind = "If") =>
    LET tests == TestsOf(TheNode)
        branches == BranchesOf(TheNode)
    IN \A k \in 0..(Len(tests) - 1) :
         LET n == IfNodeAt(cct[1], k)
         IN /\ n.node.kind = "If"
            /\ n.node.test = tests[k + 1]
            /\ n.branch_depth = B + k
            /\ \A i \in DOMAIN branches[k + 1] :
                 /\ n.subtrees[i].branch_depth = B + k + 1
                 /\ Returned(n.subtrees[i]) =
                      create_cctree(branches[k + 1][i], P + SumTests(tests, k + 1), B + k + 1)
                 /\ \A j \in DOMAIN branches[1] :
                      (k >= 1 /\ SameStatement(branches[k + 1][i], branches[1][j])) =>
                        /\ n.subtrees[i].plan_depth > cct[1].subtrees[j].plan_depth
                        /\ n.subtrees[i].mpi > cct[1].subtrees[j].mpi

\* if ...: x = y elif ...: ... elif ...: x = y has been built: the second
\* x = y is two branch levels below the first
C27_Witness ==
  /\ call # <<>>
  /\ pc = "returned"
  /\ TheNode.kind = "If"
  /\ Len(TestsOf(TheNode)) = 3
  /\ TheNode.body[1].kind = "Assign"
  /\ SameStatement(BranchesOf(TheNode)[3][1], TheNode.body[1])
  /\ IfNodeAt(cct[1], 2).subtrees[1].branch_depth = B + 3
  /\ IfNodeAt(cct[1], 2).subtrees[1].mpi > cct[1].subtrees[1].mpi + 1

\* C28: a comparison contributes the same tag to the operator set whatever
\* its comparators are, and never the name of a comparator; so a comparison
\* with a comparison as left operand adds no unit to the depth, whatever the
\* two comparators, while a binary operation over a binary operation of
\* another kind adds one.
C28_OneTagForComparisons ==
  (call # <<>> /\ depth_ops # <<>>) =>
    /\ TheNode.kind = "Compare" =>
         /\ "list" \in depth_ops[1].ops
         /\ depth_ops[1].ops \cap CmpOps = {}
         /\ TheNode.left.kind = "Compare" =>
              depth_ops[1].depth =
                Max({Depth(TheNode.left)}
                      \cup {Depth(TheNode.comparators[i]) : i \in DOMAIN TheNode.comparators})
    /\ (/\ TheNode.kind = "BinOp"
        /\ TheNode.left.kind = "BinOp"
        /\ TheNode.left.op # TheNode.op
        /\ TheNode.left.left \in Leaves
        /\ TheNode.left.right \in Leaves
        /\ TheNode.right \in Leaves) =>
         depth_ops[1].depth = Depth(TheNode.left) + 1

\* (x < y) == x has depth 2, the depth of x < y
C28_Witness ==
  /\ call # <<>>
  /\ depth_ops # <<>>
  /\ TheNode = Compare(Compare(X, <<"Lt">>, <<Y>>), <<"Eq">>, <<X>>)
  /\ depth_ops[1] = DepthOps(2, {"list"})
  /\ Depth(BinOp(BinOp(X, "Add", Y), "Mult", X)) = 3

====
